---- MODULE Spec2Model ----
(***************************************************************************)
(* A model of the Factorio Prometheus exporter (exporter.go): the          *)
(* FactorioCollector, its mutex, the snapshot it holds (c.data), the       *)
(* metrics file rewritten by the game, and the seven extractors run by     *)
(* Collect.                                                                *)
(*                                                                         *)
(* Numbers are fixed-point: an integer n stands for the float64 n / Scale, *)
(* so that ToInt (truncation) differs from ToFloat64.                      *)
(*                                                                         *)
(* A JSON object is modelled as a function from member names to values:    *)
(* member names are unique and carry no order.                             *)
(***************************************************************************)
EXTENDS Integers, Sequences, FiniteSets, TLC

\* ------------------------------------------------------------------ bounds

\* Number of concurrent goroutines calling Collect.
NumScrapers == 2
\* Numbers of a snapshot range over -MaxNum..MaxNum (in units of 1/Scale).
MaxNum == 2
\* Fixed-point resolution: the integer n stands for n / Scale.
Scale == 2

Scrapers == 1..NumScrapers

\* ------------------------------------------------------ jsoniter.Any values

EmptyMap == [k \in {} |-> 0]

\* The zero value of the field `data` before the first successful read.
Nil == [t |-> "nil", n |-> 0, b |-> FALSE, m |-> EmptyMap]
\* What Get yields for a path that is not there, and jsoniter.Get for text
\* that is not JSON.
Invalid == [t |-> "invalid", n |-> 0, b |-> FALSE, m |-> EmptyMap]
Num(x) == [t |-> "num", n |-> x, b |-> FALSE, m |-> EmptyMap]
Bool(x) == [t |-> "bool", n |-> 0, b |-> x, m |-> EmptyMap]
Obj(f) == [t |-> "obj", n |-> 0, b |-> FALSE, m |-> f]

\* any.Get(key): the member, or an invalid Any.
GetKey(any, key) ==
    IF any.t = "obj" /\ key \in DOMAIN any.m THEN any.m[key] ELSE Invalid

\* any.Get(path...): total, a missing path yields an invalid Any.
RECURSIVE Get(_, _)
Get(any, path) ==
    IF path = <<>> THEN any ELSE Get(GetKey(any, Head(path)), Tail(path))

\* any.ToFloat64(): 0 for anything that is not a number (1 for true).
ToFloat64(any) ==
    CASE any.t = "num" -> any.n
      [] any.t = "bool" -> IF any.b THEN Scale ELSE 0
      [] OTHER -> 0

\* any.ToInt(): the number truncated toward zero, 0 when there is none.
ToInt(any) ==
    LET f == ToFloat64(any)
    IN  IF f >= 0 THEN f \div Scale ELSE -((-f) \div Scale)

\* float64(i) of a Go int.
Float64(i) == i * Scale

\* any.ToBool(): false for an invalid Any, non-zero for a number.
ToBool(any) ==
    CASE any.t = "bool" -> any.b
      [] any.t = "num" -> any.n # 0
      [] any.t = "obj" -> TRUE
      [] OTHER -> FALSE

\* The members of S in some order.
SetToSeq(S) ==
    LET seq[T \in SUBSET S] ==
            IF T = {} THEN <<>>
            ELSE LET x == CHOOSE y \in T : TRUE IN <<x>> \o seq[T \ {x}]
    IN  seq[S]

\* any.Keys(): the member names of an object, empty for anything else.
Keys(any) == IF any.t = "obj" THEN SetToSeq(DOMAIN any.m) ELSE <<>>

\* `for _, k := range keys { ... }`: the samples of the rounds, in turn, given
\* as the sequence rounds[i] of what round i sends.
RECURSIVE RangeTo(_, _)
RangeTo(rounds, n) ==
    IF n = 0 THEN <<>> ELSE RangeTo(rounds, n - 1) \o rounds[n]

Range(rounds) == RangeTo(rounds, Len(rounds))

\* ----------------------------------------------------------------- samples

\* prometheus.MustNewConstMetric(NewDesc(name, help, labelNames, nil),
\* valueType, value, labelValues...)
Metric(name, valueType, value, labelValues) ==
    [family |-> name, type |-> valueType, value |-> value, labels |-> labelValues]

\* ------------------------------------------------------------- extractors

\* The two values read at time.tick and time.paused, without the `game` level.
collectTimeMetricsAtTime(d) ==
    << Metric("factorio_game_tick", "counter",
              ToFloat64(Get(d, <<"time", "tick">>)), <<>>),
       Metric("factorio_game_paused", "gauge",
              Float64(IF ToBool(Get(d, <<"time", "paused">>)) THEN 1 ELSE 0),
              <<>>) >>

\* The time extractor sending nothing when game.time is not there.
collectTimeMetricsIfPresent(d) ==
    IF Get(d, <<"game", "time">>).t # "obj" THEN <<>>
    ELSE << Metric("factorio_game_tick", "counter",
                   ToFloat64(Get(d, <<"game", "time", "tick">>)), <<>>),
            Metric("factorio_game_paused", "gauge",
                   Float64(IF ToBool(Get(d, <<"game", "time", "paused">>)) THEN 1 ELSE 0),
                   <<>>) >>

collectTimeMetrics(d) ==
    << Metric("factorio_game_tick", "counter",
              ToFloat64(Get(d, <<"game", "time", "tick">>)), <<>>),
       Metric("factorio_game_paused", "gauge",
              Float64(IF ToBool(Get(d, <<"game", "time", "paused">>)) THEN 1 ELSE 0),
              <<>>) >>

collectPlayerStateMetrics(d) ==
    LET usernames == Keys(Get(d, <<"players">>))
    IN  Range([i \in DOMAIN usernames |->
            LET username == usernames[i]
            IN  << Metric("factorio_player_connected", "gauge",
                          IF ToBool(Get(d, <<"players", username, "connected">>))
                          THEN Scale ELSE 0,
                          <<username>>) >>])

\* The figure sent whenever it is not zero.
prototypeFigureNonZero(name, item, field, labelValues) ==
    LET v == ToFloat64(Get(item, <<field>>))
    IN  IF v # 0 THEN << Metric(name, "counter", v, labelValues) >> ELSE <<>>

\* The figure sent from zero up.
prototypeFigureFromZero(name, item, field, labelValues) ==
    LET v == ToFloat64(Get(item, <<field>>))
    IN  IF v >= 0 THEN << Metric(name, "counter", v, labelValues) >> ELSE <<>>

\* `if v := item.Get(field).ToFloat64(); v > 0 { ch <- ... }`
prototypeFigure(name, item, field, labelValues) ==
    LET v == ToFloat64(Get(item, <<field>>))
    IN  IF v > 0 THEN << Metric(name, "counter", v, labelValues) >> ELSE <<>>

\* One of the two loops of collectForceMetrics over force.Get(tree).
prototypeMetrics(force, force_name, tree, typeLabel) ==
    LET surface_names == Keys(Get(force, <<tree>>))
    IN  Range([i \in DOMAIN surface_names |->
            LET surface_name == surface_names[i]
                surface == Get(force, <<tree, surface_name>>)
                item_names == Keys(surface)
            IN  Range([j \in DOMAIN item_names |->
                    LET item_name == item_names[j]
                        item == Get(surface, <<item_name>>)
                        lv == <<force_name, item_name, surface_name, typeLabel>>
                    IN  prototypeFigure("factorio_force_prototype_production",
                                        item, "production", lv)
                        \o prototypeFigure("factorio_force_prototype_consumption",
                                           item, "consumption", lv)])])

itemsMetrics(force, force_name) ==
    prototypeMetrics(force, force_name, "items", "items")

\* The fluids loop sending with the type label of the items loop.
fluidsMetricsAsItems(force, force_name) ==
    prototypeMetrics(force, force_name, "fluids", "items")

fluidsMetrics(force, force_name) ==
    prototypeMetrics(force, force_name, "fluids", "fluids")

collectForceMetrics(d) ==
    LET force_names == Keys(Get(d, <<"forces">>))
    IN  Range([i \in DOMAIN force_names |->
            LET force_name == force_names[i]
                force == Get(d, <<"forces", force_name>>)
            IN  << Metric("factorio_force_research_progress", "gauge",
                          ToFloat64(Get(force, <<"research", "progress">>)),
                          <<force_name>>) >>
                \o itemsMetrics(force, force_name)
                \o fluidsMetrics(force, force_name)])

collectPollutionMetrics(d) ==
    LET surface_names == Keys(Get(d, <<"pollution">>))
    IN  Range([i \in DOMAIN surface_names |->
            LET surface_name == surface_names[i]
                surface_pollution == Get(d, <<"pollution", surface_name>>)
                entity_names == Keys(surface_pollution)
            IN  Range([j \in DOMAIN entity_names |->
                    LET entity_name == entity_names[j]
                    IN  << Metric("factorio_surface_pollution_production", "gauge",
                                  ToFloat64(Get(surface_pollution, <<entity_name>>)),
                                  <<entity_name, surface_name>>) >>])])

collectSurfaceMetrics(d) ==
    LET surface_names == Keys(Get(d, <<"surfaces">>))
    IN  Range([i \in DOMAIN surface_names |->
            LET surface_name == surface_names[i]
                surface == Get(d, <<"surfaces", surface_name>>)
            IN  << Metric("factorio_surface_pollution_total", "gauge",
                          ToFloat64(Get(surface, <<"pollution">>)),
                          <<surface_name>>),
                   Metric("factorio_surface_ticks_per_day", "gauge",
                          ToFloat64(Get(surface, <<"ticks_per_day">>)),
                          <<surface_name>>) >>])

collectEntityMetrics(d) ==
    LET surface_names == Keys(Get(d, <<"surfaces">>))
    IN  Range([i \in DOMAIN surface_names |->
            LET surface_name == surface_names[i]
                surface == Get(d, <<"surfaces", surface_name>>)
                entity_names == Keys(Get(surface, <<"entities">>))
            IN  Range([j \in DOMAIN entity_names |->
                    LET entity_name == entity_names[j]
                    IN  << Metric("factorio_entity_count", "gauge",
                                  ToFloat64(Get(surface, <<"entities", entity_name>>)),
                                  <<"player", entity_name, surface_name>>) >>])])

collectRocketMetrics(d) ==
    LET force_names == Keys(Get(d, <<"forces">>))
    IN  Range([i \in DOMAIN force_names |->
            LET force_name == force_names[i]
                force_data == Get(d, <<"forces", force_name>>)
                item_names == Keys(Get(force_data, <<"rockets", "items">>))
            IN  << Metric("factorio_rockets_launched", "counter",
                          Float64(ToInt(Get(force_data, <<"rockets", "launches">>))),
                          <<force_name>>) >>
                \o Range([j \in DOMAIN item_names |->
                      LET item_name == item_names[j]
                      IN  << Metric("factorio_items_launched", "counter",
                                    Float64(ToInt(Get(force_data,
                                                      <<"rockets", "items", item_name>>))),
                                    <<force_name, item_name>>) >>])])

\* Collect: the extractors in the order Collect calls them, and the stage that
\* follows each.
Stages == <<"time", "player", "force", "pollution", "surface", "entity", "rocket">>

collectStage(stage, d) ==
    CASE stage = "time" -> collectTimeMetrics(d)
      [] stage = "player" -> collectPlayerStateMetrics(d)
      [] stage = "force" -> collectForceMetrics(d)
      [] stage = "pollution" -> collectPollutionMetrics(d)
      [] stage = "surface" -> collectSurfaceMetrics(d)
      [] stage = "entity" -> collectEntityMetrics(d)
      [] stage = "rocket" -> collectRocketMetrics(d)
      [] OTHER -> <<>>

StageIndex(stage) ==
    IF \E i \in DOMAIN Stages : Stages[i] = stage
    THEN CHOOSE i \in DOMAIN Stages : Stages[i] = stage
    ELSE 0

nextStage(stage) ==
    IF StageIndex(stage) \notin 1..(Len(Stages) - 1) THEN "unlock"
    ELSE Stages[StageIndex(stage) + 1]

\* --------------------------------------------------------- the metrics file

\* The file at metricsPath: whether os.ReadFile succeeds, whether its text is
\* JSON, and the Any that jsoniter.Get makes of its text. jsoniter.Get returns
\* no error: of text that is not JSON it makes an invalid Any, or an Any over
\* the part it could read (a file read while the game is rewriting it).
MetricsFile(readable, valid, doc) ==
    [readable |-> readable, valid |-> valid, doc |-> doc]

\* A construction-time marker: the member is left out of the object.
Absent == [t |-> "absent", n |-> 0, b |-> FALSE, m |-> EmptyMap]

\* The object with the members of f that are not Absent.
Pack(f) == Obj([k \in {x \in DOMAIN f : f[x] # Absent} |-> f[k]])

Nums == {Num(n) : n \in -MaxNum..MaxNum}
Bools == {Bool(TRUE), Bool(FALSE)}

TimeOf(tick, paused) == Pack("tick" :> tick @@ "paused" :> paused)
Entry(production, consumption) ==
    Pack("production" :> production @@ "consumption" :> consumption)

\* Two full snapshots that differ in every section.
FullDoc(k) ==
    LET v == Num(k)
        w == Num(MaxNum + 1 - k)
        force == Pack("research" :> Pack("progress" :> v)
                      @@ "items" :> Obj("nauvis" :> Obj("iron" :> Entry(v, w)))
                      @@ "fluids" :> Obj("nauvis" :> Obj("iron" :> Entry(w, v)))
                      @@ "rockets" :> Pack("launches" :> Num(k * Scale)
                                           @@ "items" :> Obj("iron" :> Num(k * Scale))))
    IN  Obj("game" :> Obj("time" :> TimeOf(v, Bool(k = 1)))
            @@ "players" :> Obj("alice" :> Obj("connected" :> Bool(k = 1)))
            @@ "forces" :> Obj("player" :> force)
            @@ "pollution" :> Obj("nauvis" :> Obj("boiler" :> v))
            @@ "surfaces" :> Obj("nauvis" :> Pack("pollution" :> v
                                                  @@ "ticks_per_day" :> w
                                                  @@ "entities" :> Obj("boiler" :> v))))

DocA == FullDoc(1)
DocB == FullDoc(2)

Unreadable == MetricsFile(FALSE, FALSE, Invalid)
Garbage == MetricsFile(TRUE, FALSE, Invalid)
\* DocA cut off after its first section.
Truncated == MetricsFile(TRUE, FALSE, Obj("game" :> GetKey(DocA, "game")))

\* What the game, rewriting the file between scrapes, may leave there.
Files ==
    {Unreadable, Garbage, Truncated,
     MetricsFile(TRUE, TRUE, DocA), MetricsFile(TRUE, TRUE, DocB)}

\* ------------------------------------------------------------------- state

VARIABLES
    file,      \* the file at c.metricsPath
    data,      \* c.data
    mutex,     \* c.mutex: TRUE when locked
    pc,        \* where each Collect call stands
    out,       \* what each Collect call has sent on its channel ch
    err,       \* the err of readMetricsData in each Collect call
    saw,       \* history: the file as the call's readMetricsData found it
    before,    \* history: c.data when the call's readMetricsData began
    attempts   \* history: calls of readMetricsData made by the Collect call

vars == <<file, data, mutex, pc, out, err, saw, before, attempts>>

NoFile == MetricsFile(FALSE, FALSE, Nil)

InitCollector ==
    /\ data = Nil
    /\ mutex = FALSE
    /\ out = [p \in Scrapers |-> <<>>]
    /\ err = [p \in Scrapers |-> FALSE]
    /\ saw = [p \in Scrapers |-> NoFile]
    /\ before = [p \in Scrapers |-> Nil]
    /\ attempts = [p \in Scrapers |-> 0]

Init ==
    /\ file \in Files
    /\ pc = [p \in Scrapers |-> "idle"]
    /\ InitCollector

\* The HTTP handler calls Collect: the call stands before c.mutex.Lock().
Request(p) ==
    /\ pc[p] = "idle"
    /\ pc' = [pc EXCEPT ![p] = "lock"]
    /\ UNCHANGED <<file, data, mutex, out, err, saw, before, attempts>>

\* Lock that does not wait for the mutex to be free.
LockWithoutWaiting(p) ==
    /\ pc[p] = "lock"
    /\ mutex' = TRUE
    /\ pc' = [pc EXCEPT ![p] = "read"]
    /\ UNCHANGED <<file, data, out, err, saw, before, attempts>>

\* c.mutex.Lock(): blocks while the mutex is locked.
Lock(p) ==
    /\ pc[p] = "lock"
    /\ ~mutex
    /\ mutex' = TRUE
    /\ pc' = [pc EXCEPT ![p] = "read"]
    /\ UNCHANGED <<file, data, out, err, saw, before, attempts>>

\* The mutex held for the load alone and released before the extraction.
readMetricsDataThenUnlock(p) ==
    /\ pc[p] = "read"
    /\ saw' = [saw EXCEPT ![p] = file]
    /\ before' = [before EXCEPT ![p] = data]
    /\ attempts' = [attempts EXCEPT ![p] = @ + 1]
    /\ mutex' = FALSE
    /\ IF ~file.readable
       THEN /\ err' = [err EXCEPT ![p] = TRUE]
            /\ pc' = [pc EXCEPT ![p] = "unlock"]
            /\ UNCHANGED data
       ELSE /\ data' = file.doc
            /\ pc' = [pc EXCEPT ![p] = Stages[1]]
            /\ UNCHANGED err
    /\ UNCHANGED <<file, out>>

\* err := c.readMetricsData(); if err != nil { return }
readMetricsData(p) ==
    /\ pc[p] = "read"
    /\ saw' = [saw EXCEPT ![p] = file]
    /\ before' = [before EXCEPT ![p] = data]
    /\ attempts' = [attempts EXCEPT ![p] = @ + 1]
    /\ IF ~file.readable
       THEN /\ err' = [err EXCEPT ![p] = TRUE]
            /\ pc' = [pc EXCEPT ![p] = "unlock"]
            /\ UNCHANGED data
       ELSE /\ data' = file.doc
            /\ pc' = [pc EXCEPT ![p] = Stages[1]]
            /\ UNCHANGED err
    /\ UNCHANGED <<file, mutex, out>>

\* One of the seven c.collect...Metrics(ch) calls of Collect.
collectStep(p) ==
    /\ pc[p] \in {Stages[i] : i \in DOMAIN Stages}
    /\ out' = [out EXCEPT ![p] = @ \o collectStage(pc[p], data)]
    /\ pc' = [pc EXCEPT ![p] = nextStage(pc[p])]
    /\ UNCHANGED <<file, data, mutex, err, saw, before, attempts>>

\* Unlock at the end of Collect only, not deferred: the early return after a
\* failed load leaves the mutex locked.
UnlockNotDeferred(p) ==
    /\ pc[p] = "unlock"
    /\ mutex' = (IF err[p] THEN mutex ELSE FALSE)
    /\ pc' = [pc EXCEPT ![p] = "idle"]
    /\ out' = [out EXCEPT ![p] = <<>>]
    /\ err' = [err EXCEPT ![p] = FALSE]
    /\ saw' = [saw EXCEPT ![p] = NoFile]
    /\ before' = [before EXCEPT ![p] = Nil]
    /\ attempts' = [attempts EXCEPT ![p] = 0]
    /\ UNCHANGED <<file, data>>

\* The deferred c.mutex.Unlock(), and Collect returns.
Unlock(p) ==
    /\ pc[p] = "unlock"
    /\ mutex' = FALSE
    /\ pc' = [pc EXCEPT ![p] = "idle"]
    /\ out' = [out EXCEPT ![p] = <<>>]
    /\ err' = [err EXCEPT ![p] = FALSE]
    /\ saw' = [saw EXCEPT ![p] = NoFile]
    /\ before' = [before EXCEPT ![p] = Nil]
    /\ attempts' = [attempts EXCEPT ![p] = 0]
    /\ UNCHANGED <<file, data>>

\* The game rewrites the metrics file (or removes it, or is caught midway).
Rewrite ==
    /\ file' \in Files \ {file}
    /\ UNCHANGED <<data, mutex, pc, out, err, saw, before, attempts>>

Collect(p) ==
    \/ Lock(p)
    \/ readMetricsData(p)
    \/ collectStep(p)
    \/ Unlock(p)

Next ==
    \/ \E p \in Scrapers : Request(p)
    \/ \E p \in Scrapers : Collect(p)
    \/ Rewrite

Spec == Init /\ [][Next]_vars

\* ------------------------------------------- the snapshots of ExtractSpec

Opt(S) == S \cup {Absent}

Entries == {Entry(a, b) : a \in Opt(Nums), b \in Opt(Nums)}
TypicalEntry == Entry(Num(MaxNum), Num(1))

\* The shapes of a force's `items` or `fluids` tree: surface, then prototype.
ProtoTrees ==
    {Absent, Obj(EmptyMap), Obj("nauvis" :> Obj(EmptyMap))}
    \cup {Obj("nauvis" :> Obj("iron" :> e)) : e \in Entries}
    \cup {Obj("nauvis" :> Obj("iron" :> e @@ "copper" :> TypicalEntry)
              @@ "vulcanus" :> Obj("iron" :> TypicalEntry)) : e \in Entries}
TypicalTree == Obj("nauvis" :> Obj("iron" :> TypicalEntry))

RocketTrees ==
    {Absent, Obj(EmptyMap)}
    \cup {Pack("launches" :> a @@ "items" :> it) :
            a \in Opt(Nums),
            it \in {Absent, Obj(EmptyMap)}
                   \cup {Obj("iron" :> n) : n \in Nums}
                   \cup {Obj("iron" :> Num(MaxNum) @@ "copper" :> n) : n \in Nums}}

ResearchTrees ==
    {Absent, Obj(EmptyMap)} \cup {Obj("progress" :> a) : a \in Nums}

ForceOf(research, items, fluids, rockets) ==
    Pack("research" :> research @@ "items" :> items
         @@ "fluids" :> fluids @@ "rockets" :> rockets)

TypicalForce ==
    ForceOf(Obj("progress" :> Num(1)), TypicalTree, TypicalTree,
            Obj("launches" :> Num(Scale) @@ "items" :> Obj("iron" :> Num(Scale))))

ForceObjs ==
    {ForceOf(Absent, t, u, Absent) : t \in ProtoTrees, u \in {Absent, TypicalTree}}
    \cup {ForceOf(Absent, u, t, Absent) : t \in ProtoTrees, u \in {Absent, TypicalTree}}
    \cup {ForceOf(Absent, Absent, Absent, r) : r \in RocketTrees}
    \cup {ForceOf(r, Absent, Absent, Absent) : r \in ResearchTrees}

\* The choices for each top-level section of a snapshot.
GameSections ==
    {Absent, Obj(EmptyMap)}
    \cup {Obj("time" :> TimeOf(tick, paused)) :
            tick \in Opt(Nums), paused \in Opt(Bools)}

PlayerOf(connected) == Pack("connected" :> connected)

PlayerSections ==
    {Absent}
    \cup {Pack("alice" :> a @@ "bob" :> b) :
            a \in Opt({PlayerOf(c) : c \in Opt(Bools)}),
            b \in Opt({PlayerOf(c) : c \in Opt(Bools)})}

ForceSections ==
    {Absent, Obj(EmptyMap)}
    \cup {Pack("player" :> f @@ "enemy" :> g) :
            f \in ForceObjs, g \in {Absent, TypicalForce}}

PollutionSections ==
    {Absent, Obj(EmptyMap), Obj("nauvis" :> Obj(EmptyMap))}
    \cup {Pack("nauvis" :> Obj("boiler" :> n) @@ "vulcanus" :> v) :
            n \in Nums, v \in {Absent, Obj("boiler" :> Num(1) @@ "tree" :> Num(-1))}}

SurfaceOf(pollution, ticks_per_day, entities) ==
    Pack("pollution" :> pollution @@ "ticks_per_day" :> ticks_per_day
         @@ "entities" :> entities)

SurfaceObjs ==
    {SurfaceOf(a, b, e) :
        a \in Opt({Num(1)}), b \in Opt({Num(MaxNum)}),
        e \in {Absent, Obj(EmptyMap)}
              \cup {Obj("boiler" :> n) : n \in Nums}
              \cup {Obj("boiler" :> Num(1) @@ "pump" :> Num(MaxNum))}}

SurfaceSections ==
    {Absent, Obj(EmptyMap)}
    \cup {Pack("nauvis" :> x @@ "vulcanus" :> y) :
            x \in SurfaceObjs,
            y \in {Absent, SurfaceOf(Num(1), Num(1), Obj("boiler" :> Num(1)))}}

\* A stray top-level `time` section, beside the `game` section.
StraySections == {Absent, TimeOf(Num(MaxNum), Bool(TRUE))}

SectionNames == <<"game", "players", "forces", "pollution", "surfaces", "time">>

SectionChoices(name) ==
    CASE name = "game" -> GameSections
      [] name = "players" -> PlayerSections
      [] name = "forces" -> ForceSections
      [] name = "pollution" -> PollutionSections
      [] name = "surfaces" -> SurfaceSections
      [] name = "time" -> StraySections

\* The sections all absent, and the sections of DocA.
BaseDocs ==
    {[i \in DOMAIN SectionNames |-> Absent],
     [i \in DOMAIN SectionNames |-> GetKey(DocA, SectionNames[i])]}

WithSection(base, i, section) ==
    LET f == [base EXCEPT ![i] = section]
    IN  Pack([k \in {SectionNames[j] : j \in DOMAIN SectionNames} |->
                f[CHOOSE j \in DOMAIN SectionNames : SectionNames[j] = k]])

\* The snapshots ExtractSpec starts from: one section ranging over its
\* choices, the other sections all absent or all those of DocA.
Snapshots ==
    {WithSection(base, i, section) :
        <<base, i, section>> \in
            UNION {{<<b, j, c>> : b \in BaseDocs, c \in SectionChoices(SectionNames[j])} :
                   j \in DOMAIN SectionNames}}

ExtractFiles ==
    {MetricsFile(TRUE, TRUE, d) : d \in Snapshots} \cup {Unreadable, Garbage, Truncated}

\* One Collect call on each file of ExtractFiles.
InitExtract ==
    /\ file \in ExtractFiles
    /\ pc = [p \in Scrapers |-> IF p = 1 THEN "lock" ELSE "idle"]
    /\ InitCollector

NextExtract == \E p \in Scrapers : Collect(p)

ExtractSpec == InitExtract /\ [][NextExtract]_vars

\* A collectStep(p) step as pc shows it: no other action moves pc[p] off a stage.
collectStepOnPc(p) ==
    /\ pc[p] \in {Stages[i] : i \in DOMAIN Stages}
    /\ pc' = [pc EXCEPT ![p] = nextStage(pc[p])]

\* Fairness: a started load and each send on ch finish, the deferred Unlock
\* runs, and a goroutine blocked in Lock gets the mutex (sync.Mutex hands the
\* mutex to a waiter that has waited long: starvation mode). Nothing obliges
\* the HTTP layer to call Collect, nor the game to rewrite the file.
LiveSpec ==
    /\ Spec
    /\ \A p \in Scrapers :
        /\ SF_vars(Lock(p))
        /\ WF_vars(readMetricsData(p))
        /\ WF_pc(collectStepOnPc(p))
        /\ WF_vars(Unlock(p))

\* ------------------------------------------------------------------ claims

\* The Collect call holds the mutex: it is between Lock and Unlock.
InCS(p) == pc[p] \notin {"idle", "lock"}
\* The Collect call has made its load attempt.
HasLoaded(p) == attempts[p] > 0
\* The Collect call has sent all it will send and is about to return.
AtReturn(p) == pc[p] = "unlock"
\* The file the call's load met was unreadable or not JSON.
MetBadFile(p) == HasLoaded(p) /\ ~(saw[p].readable /\ saw[p].valid)

SamplesOf(p, families) == {i \in DOMAIN out[p] : out[p][i].family \in families}

\* What a Collect call standing at pc value `at` has sent when every extractor
\* read snapshot d.
RECURSIVE SentUpTo(_, _)
SentUpTo(d, n) ==
    IF n = 0 THEN <<>> ELSE SentUpTo(d, n - 1) \o collectStage(Stages[n], d)

SentBefore(d, at) ==
    IF at = "unlock" THEN SentUpTo(d, Len(Stages)) ELSE SentUpTo(d, StageIndex(at) - 1)

\* C1: at every instant at most one Collect call is between acquiring the
\* mutex and releasing it (loading, replacing c.data or extracting).
MutualExclusion ==
    \A p, q \in Scrapers : (p # q) => ~(InCS(p) /\ InCS(q))

\* One call is extracting while another is blocked in Lock.
MutualExclusionWitness ==
    \E p, q \in Scrapers : p # q /\ pc[p] = "force" /\ pc[q] = "lock"

\* C2: a load that meets an unreadable file or text that is not JSON returns
\* an error and leaves c.data as it was before the load.
FailedLoadKeepsSnapshot ==
    \A p \in Scrapers : MetBadFile(p) => (err[p] /\ data = before[p])

\* C3: a scrape whose file is unreadable or not JSON sends no sample.
BadFileYieldsNoSamples ==
    \A p \in Scrapers : MetBadFile(p) => out[p] = <<>>

\* C4: from its load to its return, c.data stays the snapshot the call's own
\* load installed, and what the call has sent is what the extractors make of
\* that one snapshot; a call whose load failed has sent nothing.
SnapshotAtomicity ==
    \A p \in Scrapers :
        HasLoaded(p) =>
            IF err[p] THEN out[p] = <<>>
            ELSE /\ data = saw[p].doc
                 /\ out[p] = SentBefore(saw[p].doc, pc[p])

\* A call has extracted a whole snapshot while the game has since rewritten
\* the file and another call waits for the mutex.
SnapshotAtomicityWitness ==
    \E p, q \in Scrapers :
        /\ p # q /\ AtReturn(p) /\ ~err[p] /\ Len(out[p]) > 2
        /\ pc[q] = "lock"
        /\ file.readable /\ file.valid /\ file.doc # data

\* C10 (safety part): the mutex is locked exactly while a call is between Lock
\* and Unlock, and a call makes exactly one load attempt while it holds it.
LockDiscipline ==
    /\ mutex <=> (\E p \in Scrapers : InCS(p))
    /\ \A p \in Scrapers :
        /\ attempts[p] = (IF pc[p] \in {"idle", "lock", "read"} THEN 0 ELSE 1)
        /\ err[p] => AtReturn(p)

\* C10: every call that acquires the mutex releases it, after a failed load as
\* after a successful one, with one load attempt; so every call blocked in
\* Lock acquires the mutex and every call returns.
LockReleaseAndProgress ==
    /\ []LockDiscipline
    /\ \A p \in Scrapers : (pc[p] = "lock") ~> (pc[p] = "read")
    /\ \A p \in Scrapers : InCS(p) ~> (pc[p] = "idle")

\* A call whose load failed is about to release the mutex another call waits for.
LockReleaseWitness ==
    \E p, q \in Scrapers : p # q /\ AtReturn(p) /\ err[p] /\ pc[q] = "lock"

\* ------------------------------------------- claims about the extractors

\* The Collect call has run all seven extractors over c.data.
Extracted(p) == AtReturn(p) /\ ~err[p]

CounterFamilies ==
    {"factorio_game_tick", "factorio_force_prototype_production",
     "factorio_force_prototype_consumption", "factorio_rockets_launched",
     "factorio_items_launched"}
PrototypeFamilies ==
    {"factorio_force_prototype_production", "factorio_force_prototype_consumption"}

\* The families each extractor sends to, and the sub-tree it traverses.
ExtractorFamilies(stage) ==
    CASE stage = "time" -> {"factorio_game_tick", "factorio_game_paused"}
      [] stage = "player" -> {"factorio_player_connected"}
      [] stage = "force" -> {"factorio_force_research_progress"} \cup PrototypeFamilies
      [] stage = "pollution" -> {"factorio_surface_pollution_production"}
      [] stage = "surface" ->
            {"factorio_surface_pollution_total", "factorio_surface_ticks_per_day"}
      [] stage = "entity" -> {"factorio_entity_count"}
      [] stage = "rocket" -> {"factorio_rockets_launched", "factorio_items_launched"}

ExtractorRoot(stage) ==
    CASE stage = "time" -> <<"game", "time">>
      [] stage = "player" -> <<"players">>
      [] stage = "force" -> <<"forces">>
      [] stage = "pollution" -> <<"pollution">>
      [] stage = "surface" -> <<"surfaces">>
      [] stage = "entity" -> <<"surfaces">>
      [] stage = "rocket" -> <<"forces">>

Missing(d, path) == Get(d, path).t # "obj"
\* The number of members of the object at path, 0 when there is none.
Members(d, path) == Cardinality(DOMAIN Get(d, path).m)
Count(p, family) == Cardinality(SamplesOf(p, {family}))

\* C5 as stated: no sample of a Counter family is negative.
CounterSamplesNeverNegative ==
    \A p \in Scrapers : \A i \in DOMAIN out[p] :
        out[p][i].family \in CounterFamilies => out[p][i].value >= 0

\* C5 as amended: the Counter families are sent as counters; a sample of
\* prototype production or consumption is above zero; a negative Counter
\* sample is a game tick, a rockets-launched or an items-launched sample.
CounterSamplesSign ==
    \A p \in Scrapers : \A i \in DOMAIN out[p] :
        LET s == out[p][i]
        IN  /\ (s.type = "counter") <=> (s.family \in CounterFamilies)
            /\ s.family \in PrototypeFamilies => s.value > 0
            /\ (s.type = "counter" /\ s.value < 0) =>
                 s.family \in {"factorio_game_tick", "factorio_rockets_launched",
                               "factorio_items_launched"}

\* One pass sends a negative game tick beside a production sample.
CounterSamplesSignWitness ==
    \E p \in Scrapers :
        /\ Extracted(p)
        /\ \E i, j \in DOMAIN out[p] :
            /\ out[p][i].family = "factorio_game_tick" /\ out[p][i].value < 0
            /\ out[p][j].family = "factorio_force_prototype_production"

\* C6 as stated: an extractor whose sub-tree is missing sends nothing.
MissingSubtreeYieldsNothing ==
    \A p \in Scrapers :
        Extracted(p) =>
            \A i \in DOMAIN Stages :
                Missing(data, ExtractorRoot(Stages[i])) =>
                    SamplesOf(p, ExtractorFamilies(Stages[i])) = {}

\* C6 as amended: each of the six iterating extractors sends nothing when the
\* section it iterates is missing; the time extractor always sends its two
\* samples, both 0 when game.time is missing; and every extractor runs
\* whatever is missing: it sends one sample of its per-key family for each
\* key of its section.
ExtractorsTotal ==
    \A p \in Scrapers :
        Extracted(p) =>
            /\ \A i \in DOMAIN Stages :
                (Stages[i] # "time" /\ Missing(data, ExtractorRoot(Stages[i]))) =>
                    SamplesOf(p, ExtractorFamilies(Stages[i])) = {}
            /\ Count(p, "factorio_game_tick") = 1
            /\ Count(p, "factorio_game_paused") = 1
            /\ Missing(data, <<"game", "time">>) =>
                 \A i \in SamplesOf(p, ExtractorFamilies("time")) : out[p][i].value = 0
            /\ Count(p, "factorio_player_connected") = Members(data, <<"players">>)
            /\ Count(p, "factorio_force_research_progress") = Members(data, <<"forces">>)
            /\ Count(p, "factorio_rockets_launched") = Members(data, <<"forces">>)
            /\ Count(p, "factorio_surface_pollution_total") = Members(data, <<"surfaces">>)
            /\ Count(p, "factorio_surface_ticks_per_day") = Members(data, <<"surfaces">>)
            /\ (Count(p, "factorio_surface_pollution_production") = 0)
                 <=> (\A s \in DOMAIN Get(data, <<"pollution">>).m :
                         Members(data, <<"pollution", s>>) = 0)
            /\ (Count(p, "factorio_entity_count") = 0)
                 <=> (\A s \in DOMAIN Get(data, <<"surfaces">>).m :
                         Members(data, <<"surfaces", s, "entities">>) = 0)

\* A snapshot with neither game.time nor players but with a force: the time
\* extractor has sent two samples, the player extractor none, the force
\* extractor the force's.
ExtractorsTotalWitness ==
    \E p \in Scrapers :
        /\ Extracted(p)
        /\ Missing(data, <<"game", "time">>)
        /\ Missing(data, <<"players">>)
        /\ ~Missing(data, <<"forces">>)
        /\ SamplesOf(p, {"factorio_force_research_progress"}) # {}
        /\ SamplesOf(p, {"factorio_player_connected"}) = {}

ForceNames == {"player", "enemy"}
SurfaceNames == {"nauvis", "vulcanus"}
PrototypeNames == {"iron", "copper"}

FigureFamily(field) ==
    IF field = "production" THEN "factorio_force_prototype_production"
    ELSE "factorio_force_prototype_consumption"

\* C8: for every force, surface and prototype under items or fluids, the
\* production (consumption) figure above zero is sent as exactly one Counter
\* sample of that value, labelled (force, prototype, surface, type); a figure
\* that is 0, negative or absent is not sent; and nothing else is sent to the
\* two families.
ZeroSuppression ==
    \A p \in Scrapers :
        Extracted(p) =>
            /\ \A f \in ForceNames, tree \in {"items", "fluids"}, s \in SurfaceNames,
                 proto \in PrototypeNames, field \in {"production", "consumption"} :
                LET figure == Get(data, <<"forces", f, tree, s, proto, field>>)
                    sent == {i \in SamplesOf(p, {FigureFamily(field)}) :
                                out[p][i].labels = <<f, proto, s, tree>>}
                IN  IF figure.t = "num" /\ figure.n > 0
                    THEN /\ Cardinality(sent) = 1
                         /\ \A i \in sent :
                              out[p][i].value = figure.n /\ out[p][i].type = "counter"
                    ELSE sent = {}
            /\ \A i \in SamplesOf(p, PrototypeFamilies) :
                /\ Len(out[p][i].labels) = 4
                /\ out[p][i].labels[1] \in ForceNames
                /\ out[p][i].labels[2] \in PrototypeNames
                /\ out[p][i].labels[3] \in SurfaceNames
                /\ out[p][i].labels[4] \in {"items", "fluids"}

\* A prototype with a production above zero, sent, and a consumption of zero
\* or below, not sent.
ZeroSuppressionWitness ==
    \E p \in Scrapers :
        /\ Extracted(p)
        /\ \E f \in ForceNames, tree \in {"items", "fluids"}, s \in SurfaceNames,
             proto \in PrototypeNames :
            LET item == Get(data, <<"forces", f, tree, s, proto>>)
            IN  /\ Get(item, <<"production">>).t = "num"
                /\ Get(item, <<"production">>).n > 0
                /\ Get(item, <<"consumption">>).t = "num"
                /\ Get(item, <<"consumption">>).n <= 0
                /\ \E i \in SamplesOf(p, {"factorio_force_prototype_production"}) :
                     out[p][i].labels = <<f, proto, s, tree>>
                /\ ~\E i \in SamplesOf(p, {"factorio_force_prototype_consumption"}) :
                     out[p][i].labels = <<f, proto, s, tree>>

\* The number at path, 0 when there is none.
NumberAt(d, path) == IF Get(d, path).t = "num" THEN Get(d, path).n ELSE 0
\* Whether the value at path is the boolean true.
TrueAt(d, path) == Get(d, path).t = "bool" /\ Get(d, path).b

\* What C9 says of the samples when the two values are read at tickPath and
\* pausedPath: one tick sample of the number there, one pause gauge of 1 or 0.
TimeSamplesRead(p, tickPath, pausedPath) ==
    /\ Count(p, "factorio_game_tick") = 1
    /\ Count(p, "factorio_game_paused") = 1
    /\ \A i \in SamplesOf(p, {"factorio_game_tick"}) :
        out[p][i].value = NumberAt(data, tickPath)
    /\ \A i \in SamplesOf(p, {"factorio_game_paused"}) :
        /\ out[p][i].type = "gauge"
        /\ out[p][i].value = (IF TrueAt(data, pausedPath) THEN Float64(1) ELSE 0)

\* C9 as stated: the two values are read at time.tick and time.paused.
TimeReadAtTime ==
    \A p \in Scrapers :
        Extracted(p) => TimeSamplesRead(p, <<"time", "tick">>, <<"time", "paused">>)

\* C9 as amended: the two values are read at game.time.tick and
\* game.time.paused (0 when there is no number at game.time.tick).
TimeReadAtGameTime ==
    \A p \in Scrapers :
        Extracted(p) =>
            TimeSamplesRead(p, <<"game", "time", "tick">>, <<"game", "time", "paused">>)

\* A paused game at a tick other than 0, and its two samples.
TimeReadAtGameTimeWitness ==
    \E p \in Scrapers :
        /\ Extracted(p)
        /\ NumberAt(data, <<"game", "time", "tick">>) # 0
        /\ TrueAt(data, <<"game", "time", "paused">>)
        /\ \E i \in DOMAIN out[p] :
            /\ out[p][i].family = "factorio_game_tick"
            /\ out[p][i].value = NumberAt(data, <<"game", "time", "tick">>)
        /\ \E i \in DOMAIN out[p] :
            out[p][i].family = "factorio_game_paused" /\ out[p][i].value = Float64(1)

====
